---------------------------- MODULE Spec2Model ----------------------------
(***************************************************************************)
(* A model of the crawl traversal engine of Web-Data-Acquisition           *)
(* (src/web_crawler.py: WebCrawler.crawl, WebCrawler.parallel_crawl,       *)
(* _get_page_content, extract_data, extract_links, close) and of the two   *)
(* callers that run it (src/app.py: start_crawl / crawl_task / stop_job,   *)
(* src/cli.py: crawl_command).                                             *)
(*                                                                         *)
(* Thread 0 is the thread that runs crawl() or the body of                 *)
(* parallel_crawl(); threads 1..max_workers are the pool's workers.        *)
(***************************************************************************)
EXTENDS Integers, Sequences, FiniteSets, TLC

VARIABLES
    method,          \* "crawl" | "parallel_crawl": the entry point of the run
    start_url,       \* argument start_url
    max_depth,       \* argument max_depth
    selectors,       \* argument selectors: "none" | "valid" | "invalid" (a
                     \* selector soup.select rejects) | "malformed" (not JSON)
    restrict_domain, \* argument restrict_domain
    max_workers,     \* self.max_workers
    site,            \* the web as the run sees it: resource -> hrefs of its <a> tags
    use_selenium,    \* self.use_selenium
    driver,          \* self.driver: [state, page]
    quits,           \* number of driver.quit() calls so far
    visited_urls,    \* self.visited_urls
    local_visited,   \* parallel_crawl's local visited_urls
    to_visit,        \* the work queue: sequence of <<url, depth>>
    all_data,        \* the result list
    pc,              \* where thread 0 stands
    ctx,             \* per thread: the task it is processing
    batch,           \* parallel_crawl: the tasks of the current wave
    fold,            \* parallel_crawl: number of results folded in the last wave
    faults,          \* number of failed network and browser calls so far
    fetches,         \* history: url -> number of _get_page_content(url) calls
    http_log,        \* history: <<url, "plain" | "fallback">> -> number of
                     \* requests.get calls
    enq_log,         \* history: every task ever put in to_visit, in order
    proc_log,        \* history: every task whose processing began, in order
    disc_log,        \* history: the <<url, depth>> extract_links was called for
    link_log,        \* history: the <<page url, link>> of every link queued
    outcomes,        \* history: how each call of _get_page_content ended
    produced,        \* history: the records extract_data returned
    driver_errors,   \* history: url -> number of TimeoutException /
                     \* WebDriverException caught in _get_page_content(url)
    caller,          \* "direct" | "web" | "cli": who runs the crawler
    phase,           \* where the caller stands
    job,             \* crawl_status[job_id]
    active,          \* job_id in active_crawlers
    clock,           \* datetime.now(), as a counter
    stops,           \* number of stop_job requests served
    run,             \* number of calls of crawl() / parallel_crawl() made on
                     \* the WebCrawler instance
    url_arg,         \* the URL string the user gave (args.url, the form's
                     \* start_url), or the argument of normalize_url
    extract_arg,     \* the argument of extract_data called on its own:
                     \* what each selector matches on the page, and the
                     \* kind of database manager
    ret              \* the values returned by the function under study

fnvars   == <<url_arg, extract_arg, ret>>
cfgvars  == <<method, start_url, max_depth, selectors, restrict_domain,
              max_workers, site, caller, fnvars>>
engvars  == <<use_selenium, driver, quits, visited_urls, local_visited,
              to_visit, all_data, pc, ctx, batch, fold>>
envvars  == <<faults>>
histvars == <<fetches, http_log, enq_log, proc_log, disc_log, link_log,
              outcomes, produced, driver_errors>>
appvars  == <<phase, job, active, clock, stops, run>>
vars     == <<cfgvars, engvars, envvars, histvars, appvars>>

----------------------------------------------------------------------------
(* Bounds of the model *)

MaxDepth   == 2    \* max_depth ranges over 0..MaxDepth
MaxWorkers == 2    \* max_workers ranges over 1..MaxWorkers
MaxStops   == 2    \* stop_job requests served per job
MaxFaults  == 2    \* failed network and browser calls per run
MaxRuns    == 2    \* calls of crawl() on one WebCrawler instance
MaxCalls   == 2    \* successive applications of a function to its result
MaxMatches == 2    \* nodes a selector matches on a page

----------------------------------------------------------------------------
(* URLs.  A URL string is modelled by its urlparse components; two URL     *)
(* strings are equal iff their components are.                             *)

Url(s, n, p, f) ==
    [scheme |-> s, netloc |-> n, path |-> p, query |-> "", fragment |-> f]

A   == Url("https", "a.com", "/", "")
P   == Url("https", "a.com", "/p", "")
Q   == Url("https", "a.com", "/q", "")
R   == Url("https", "a.com", "/r", "")
B   == Url("https", "b.com", "/", "")
BP  == Url("https", "b.com", "/p", "")
Mailto == Url("mailto", "", "x@a.com", "")
Rel(p)  == Url("", "", p, "")      \* href="/p"
Frag(f) == Url("", "", "", f)      \* href="#f"

NoUrl  == Url("", "", "", "")
NoPage == <<>>                      \* content None
ErrorPage == <<"error">>            \* what a browser shows for a missing page
NoExtract == [matches |-> << >>, db |-> "unused"]   \* extract_data not under study

\* The resource a server is asked for: the fragment is not sent, and an
\* empty path is requested as "/".
Resource(u) == <<u.netloc, IF u.path = "" THEN "/" ELSE u.path>>

\* urllib.parse.urljoin(base, href), for absolute hrefs, network-path
\* references, absolute paths, and query- or fragment-only references.
urljoin(base, href) ==
    IF href.scheme # "" THEN href
    ELSE IF href.netloc # "" THEN [href EXCEPT !.scheme = base.scheme]
    ELSE IF href.path = "" /\ href.query = ""
         THEN [base EXCEPT !.fragment = href.fragment]
    ELSE IF href.path = ""
         THEN [base EXCEPT !.query = href.query, !.fragment = href.fragment]
    ELSE [base EXCEPT !.path = href.path, !.query = href.query,
                      !.fragment = href.fragment]

\* full_url.startswith(('http://', 'https://'))
IsHttp(u) == u.scheme \in {"http", "https"}

----------------------------------------------------------------------------
(* Link graphs *)

\* Two pages of one wave link to the same unseen page; links back to the
\* seed, a self link and a cycle.
SiteDiamond ==
    (<<"a.com", "/">>  :> <<Rel("/p"), Rel("/q")>>) @@
    (<<"a.com", "/p">> :> <<Rel("/r"), Rel("/")>>) @@
    (<<"a.com", "/q">> :> <<Rel("/r"), Rel("/q")>>) @@
    (<<"a.com", "/r">> :> <<Rel("/p")>>)

\* A page that links twice to the same URL, to another host, to a mailto:
\* address and to a fragment of itself; the other host links back.
SiteMixed ==
    (<<"a.com", "/">>  :> <<Rel("/p"), Rel("/p"), B, Mailto, Frag("x")>>) @@
    (<<"a.com", "/p">> :> <<B, Rel("/")>>) @@
    (<<"b.com", "/">>  :> <<A, BP>>) @@
    (<<"b.com", "/p">> :> << >>)

Sites == {SiteDiamond, SiteMixed}
Seeds == {A}

Hrefs(content) ==
    IF content \in DOMAIN site THEN site[content] ELSE << >>


----------------------------------------------------------------------------
(* Per-thread task state *)

Idle ==
    [pc |-> "idle", url |-> NoUrl, depth |-> 0, data |-> << >>,
     links |-> << >>, i |-> 0, new_urls |-> << >>]

Task(url, depth, at) ==
    [pc |-> at, url |-> url, depth |-> depth, data |-> << >>,
     links |-> << >>, i |-> 0, new_urls |-> << >>]

Threads == 0..MaxWorkers

\* A counter per key: one more occurrence of x.
Count(b, x) == IF x \in DOMAIN b THEN b[x] ELSE 0
Counted(b, x) == [y \in DOMAIN b \cup {x} |-> IF y = x THEN Count(b, x) + 1 ELSE b[y]]

Min(a, b) == IF a < b THEN a ELSE b

\* FirstStep of a task that never calls extract_data.
FirstStepLinksOnly(depth) ==
    IF depth < max_depth THEN "extract_links" ELSE "done"

\* The first step of a task once it is past the skip test: extract_data if
\* selectors is truthy, else extract_links if below max_depth, else nothing.
FirstStep(depth) ==
    IF selectors # "none" THEN "extract_data"
    ELSE IF depth < max_depth THEN "extract_links"
    ELSE "done"

----------------------------------------------------------------------------
(* _get_page_content *)

\* What requests.get(url) may do: a response with status 200 exists only for
\* an http(s) URL of a resource the site serves; a URL of another scheme is
\* refused by requests with a RequestException (InvalidSchema).
Responses(url) ==
    IF ~IsHttp(url) THEN {"RequestException"}
    ELSE IF Resource(url) \notin DOMAIN site
         THEN {"non200", "RequestException"}
    ELSE IF faults < MaxFaults
         THEN {"200", "non200", "RequestException"}
    ELSE {"200"}

\* A response other than the 200 of a page the site serves counts as a fault.
Faulty(url, resp) == IsHttp(url) /\ Resource(url) \in DOMAIN site /\ resp # "200"

\* RequestsResult without the test of the status code.
RequestsResultAnyStatus(url, resp) ==
    IF resp \in {"200", "non200"}
    THEN [content |-> Resource(url), success |-> TRUE]
    ELSE [content |-> NoPage, success |-> FALSE]

\* The (content, success) pair the requests branch returns; the
\* RequestException is caught by the outer handler.
RequestsResult(url, resp) ==
    IF resp = "200"
    THEN [content |-> Resource(url), success |-> TRUE]
    ELSE [content |-> NoPage, success |-> FALSE]

\* What driver.get(url) leaves in the browser.
Rendered(url) ==
    IF Resource(url) \in DOMAIN site THEN Resource(url) ELSE ErrorPage

\* What a call on the driver may do: succeed (on a live session only), raise
\* TimeoutException / WebDriverException, or raise something else.
DriverOutcomes ==
    IF driver.state # "live" THEN {"WebDriverException", "other"}
    ELSE IF faults < MaxFaults THEN {"ok", "WebDriverException", "other"}
    ELSE {"ok"}

\* A failure of a call on a live driver counts as a fault.
DriverFault(o) == IF driver.state = "live" /\ o # "ok" THEN 1 ELSE 0

----------------------------------------------------------------------------
(* extract_links *)

RECURSIVE FilterLinksAnyHost(_, _, _)
\* FilterLinks without the test of the host.
FilterLinksAnyHost(hrefs, url, restrict) ==
    IF hrefs = << >> THEN << >>
    ELSE LET full_url == urljoin(url, Head(hrefs))
             rest == FilterLinksAnyHost(Tail(hrefs), url, restrict)
         IN IF ~IsHttp(full_url) THEN rest
            ELSE <<full_url>> \o rest

RECURSIVE FilterLinks(_, _, _)
\* The loop of extract_links over the <a href> tags of a page.
FilterLinks(hrefs, url, restrict) ==
    IF hrefs = << >> THEN << >>
    ELSE LET full_url == urljoin(url, Head(hrefs))
             rest == FilterLinks(Tail(hrefs), url, restrict)
         IN IF ~IsHttp(full_url) THEN rest
            ELSE IF restrict /\ full_url.netloc # url.netloc THEN rest
            ELSE <<full_url>> \o rest

\* extract_links(url, restrict_domain), given what the fetch returned.
ExtractLinks(r, url, restrict) ==
    IF ~r.success THEN << >>
    ELSE FilterLinks(Hrefs(r.content), url, restrict)

\* Enqueue that puts the new tasks in front of the queue.
EnqueueAtHead(queue, tasks) == tasks \o queue

\* to_visit.append(...) for each new task: they go to the tail.
Enqueue(queue, tasks) == queue \o tasks

\* crawl's loop over the links: those not in self.visited_urls are queued.
NewTasks(links, depth) ==
    LET new == SelectSeq(links, LAMBDA l : l \notin visited_urls)
    IN [k \in 1..Len(new) |-> <<new[k], depth + 1>>]


----------------------------------------------------------------------------
(* Tests of the traversal *)

\* Skips without the visited test.
SkipsDepthOnly(url, depth) == depth > max_depth

\* crawl: "if url in self.visited_urls or depth > max_depth: continue"
Skips(url, depth) == url \in visited_urls \/ depth > max_depth

\* Expands with the comparison off by one.
ExpandsAtMaxDepth(depth) == depth <= max_depth

\* "if depth < max_depth": links are extracted
Expands(depth) == depth < max_depth

\* The step of a task after extract_data (or in its place).
AfterData(depth) == IF Expands(depth) THEN "extract_links" ELSE "done"

----------------------------------------------------------------------------
(* What happens when a call of _get_page_content made by thread w ends *)

\* Whether thread w is inside extract_data or inside extract_links.
Phase(w) ==
    IF ctx[w].pc \in {"extract_data", "data_src"} THEN "data" ELSE "links"

\* The history entry of a call that returned r: via the "driver", the
\* "fallback" or the "plain" branch, on response or driver outcome resp.
Outcome(w, via, resp, r) ==
    [url |-> ctx[w].url, phase |-> Phase(w), via |-> via, resp |-> resp,
     content |-> r.content, success |-> r.success, raised |-> FALSE]

\* The history entry of a call that an exception left.
Raised(w, via, resp) ==
    [url |-> ctx[w].url, phase |-> Phase(w), via |-> via, resp |-> resp,
     content |-> NoPage, success |-> FALSE, raised |-> TRUE]

\* An exception leaves the task of thread w.  In crawl() nothing catches it
\* and it leaves crawl(); in a worker it is kept in the task's future.
Raise(w) ==
    /\ ctx' = [ctx EXCEPT ![w].pc = "raised"]
    /\ pc' = IF w = 0 THEN "raised" ELSE pc
    /\ UNCHANGED <<to_visit, all_data, local_visited, enq_log, link_log,
                   produced>>

\* The rest of extract_data once the fetch returned r, and what its caller
\* does with the record.
ExtractDataReturn(w, r) ==
    LET c    == ctx[w]
        data == IF r.success
                THEN <<[url |-> c.url, src |-> r.content]>>
                ELSE << >>
        next == AfterData(c.depth)
    IN IF r.success /\ selectors = "invalid"
       THEN Raise(w)                  \* soup.select(selector) raises
       ELSE /\ produced' = produced \cup {data[k] : k \in 1..Len(data)}
            /\ all_data' = IF w = 0 THEN all_data \o data ELSE all_data
            /\ ctx' = [ctx EXCEPT ![w] =
                         IF w = 0 /\ next = "done" THEN Idle
                         ELSE [c EXCEPT !.pc = next, !.data = data]]
            /\ pc' = IF w = 0 /\ next = "done" THEN "loop" ELSE pc
            /\ UNCHANGED <<to_visit, local_visited, enq_log, link_log>>

\* The rest of extract_links once the fetch returned r, and in crawl() the
\* loop that queues the links.
ExtractLinksReturn(w, r) ==
    LET c     == ctx[w]
        links == ExtractLinks(r, c.url, restrict_domain)
        tasks == NewTasks(links, c.depth)
    IN /\ IF w = 0
          THEN /\ to_visit' = Enqueue(to_visit, tasks)
               /\ enq_log' = enq_log \o tasks
               /\ link_log' = link_log \cup
                                {<<c.url, tasks[k][1]>> : k \in 1..Len(tasks)}
               /\ ctx' = [ctx EXCEPT ![0] = Idle]
               /\ pc' = "loop"
          ELSE /\ ctx' = [ctx EXCEPT ![w] =
                            [c EXCEPT !.links = links, !.i = 1,
                                      !.pc = IF links = << >> THEN "done"
                                             ELSE "links_check"]]
               /\ UNCHANGED <<to_visit, enq_log, link_log, pc>>
       /\ UNCHANGED <<all_data, local_visited, produced>>

\* _get_page_content returns r to extract_data or extract_links.
Deliver(w, r) ==
    IF Phase(w) = "data"
    THEN ExtractDataReturn(w, r)
    ELSE ExtractLinksReturn(w, r)

\* Fallback without the requests.get: the handler gives up at once.
NoFallback(w) ==
    /\ driver_errors' = Counted(driver_errors, ctx[w].url)
    /\ faults' = faults + DriverFault("WebDriverException")
    /\ outcomes' = outcomes \cup
          {Outcome(w, "driver", "WebDriverException",
                   [content |-> NoPage, success |-> FALSE])}
    /\ UNCHANGED <<http_log, use_selenium>>
    /\ Deliver(w, [content |-> NoPage, success |-> FALSE])

\* Fallback that also gives up the browser for the rest of the run.
FallbackTurnsSeleniumOff(w) ==
    \E resp \in Responses(ctx[w].url) :
        /\ use_selenium' = FALSE
        /\ driver_errors' = Counted(driver_errors, ctx[w].url)
        /\ http_log' = Counted(http_log, <<ctx[w].url, "fallback">>)
        /\ faults' = faults + DriverFault("WebDriverException")
                      + (IF Faulty(ctx[w].url, resp) THEN 1 ELSE 0)
        /\ outcomes' = outcomes \cup
              {Outcome(w, "fallback", resp, RequestsResult(ctx[w].url, resp))}
        /\ Deliver(w, RequestsResult(ctx[w].url, resp))

\* The handler of (TimeoutException, WebDriverException): one requests.get
\* of the same URL, whose RequestException the outer handler catches; it
\* leaves self.use_selenium as it is.
Fallback(w) ==
    \E resp \in Responses(ctx[w].url) :
        /\ UNCHANGED use_selenium
        /\ driver_errors' = Counted(driver_errors, ctx[w].url)
        /\ http_log' = Counted(http_log, <<ctx[w].url, "fallback">>)
        /\ faults' = faults + DriverFault("WebDriverException")
                      + (IF Faulty(ctx[w].url, resp) THEN 1 ELSE 0)
        /\ outcomes' = outcomes \cup
              {Outcome(w, "fallback", resp, RequestsResult(ctx[w].url, resp))}
        /\ Deliver(w, RequestsResult(ctx[w].url, resp))

----------------------------------------------------------------------------
(* Steps of a thread inside _get_page_content *)

\* extract_data or extract_links calls _get_page_content(url): the requests
\* branch as a whole, or the Selenium branch up to driver.get(url).
GetPageContent(w) ==
    /\ phase = "run"
    /\ pc \in {"task", "wave"}
    /\ ctx[w].pc \in {"extract_data", "extract_links"}
    /\ fetches' = Counted(fetches, ctx[w].url)
    /\ disc_log' = IF ctx[w].pc = "extract_links"
                   THEN disc_log \cup {<<ctx[w].url, ctx[w].depth>>}
                   ELSE disc_log
    /\ IF use_selenium
       THEN \E o \in DriverOutcomes :
              \/ /\ o = "ok"
                 /\ driver' = [driver EXCEPT !.page = Rendered(ctx[w].url)]
                 /\ ctx' = [ctx EXCEPT ![w].pc =
                              IF ctx[w].pc = "extract_data" THEN "data_src"
                              ELSE "links_src"]
                 /\ UNCHANGED <<to_visit, all_data, local_visited, enq_log,
                                link_log, pc, http_log, faults, outcomes, produced,
                                driver_errors, use_selenium>>
              \/ /\ o = "WebDriverException"
                 /\ Fallback(w)
                 /\ UNCHANGED driver
              \/ /\ o = "other"
                 /\ Raise(w)
                 /\ faults' = faults + DriverFault(o)
                 /\ outcomes' = outcomes \cup {Raised(w, "driver", o)}
                 /\ UNCHANGED <<driver, http_log, driver_errors, use_selenium>>
       ELSE \E resp \in Responses(ctx[w].url) :
              /\ http_log' = Counted(http_log, <<ctx[w].url, "plain">>)
              /\ faults' = faults + (IF Faulty(ctx[w].url, resp) THEN 1 ELSE 0)
              /\ outcomes' = outcomes \cup
                   {Outcome(w, "plain", resp, RequestsResult(ctx[w].url, resp))}
              /\ Deliver(w, RequestsResult(ctx[w].url, resp))
              /\ UNCHANGED <<driver, driver_errors, use_selenium>>
    /\ UNCHANGED <<cfgvars, appvars, quits, visited_urls, batch, fold,
                   proc_log>>

\* The Selenium branch after driver.get: the wait for <body>, the settle
\* delay and the read of driver.page_source.
PageSource(w) ==
    /\ phase = "run"
    /\ pc \in {"task", "wave"}
    /\ ctx[w].pc \in {"data_src", "links_src"}
    /\ \E o \in DriverOutcomes :
          \/ /\ o = "ok"
             /\ outcomes' = outcomes \cup
                  {Outcome(w, "driver", o,
                           [content |-> driver.page, success |-> TRUE])}
             /\ Deliver(w, [content |-> driver.page, success |-> TRUE])
             /\ UNCHANGED <<http_log, faults, driver_errors, use_selenium>>
          \/ /\ o = "WebDriverException"
             /\ Fallback(w)
          \/ /\ o = "other"
             /\ Raise(w)
             /\ faults' = faults + DriverFault(o)
             /\ outcomes' = outcomes \cup {Raised(w, "driver", o)}
             /\ UNCHANGED <<http_log, driver_errors, use_selenium>>
    /\ UNCHANGED <<cfgvars, appvars, driver, quits, visited_urls, batch,
                   fold, fetches, proc_log, disc_log>>

----------------------------------------------------------------------------
(* crawl *)

\* crawl() is entered: all_data = [], to_visit = [(start_url, 0)].
Crawl ==
    /\ phase = "run"
    /\ method = "crawl"
    /\ pc = "start"
    /\ all_data' = << >>
    /\ to_visit' = << <<start_url, 0>> >>
    /\ enq_log' = Append(enq_log, <<start_url, 0>>)
    /\ pc' = "loop"
    /\ UNCHANGED <<cfgvars, appvars, envvars, use_selenium, driver, quits,
                   visited_urls, local_visited, ctx, batch, fold, fetches,
                   http_log, proc_log, disc_log, link_log, outcomes, produced,
                   driver_errors>>

\* One pass of "while to_visit" up to the first fetch: pop the head, skip it
\* or mark it visited and begin to process it.
CrawlPop ==
    /\ phase = "run"
    /\ method = "crawl"
    /\ pc = "loop"
    /\ to_visit # << >>
    /\ LET url   == Head(to_visit)[1]
           depth == Head(to_visit)[2]
       IN /\ to_visit' = Tail(to_visit)
          /\ IF Skips(url, depth)
             THEN UNCHANGED <<visited_urls, ctx, pc, proc_log>>
             ELSE /\ visited_urls' = visited_urls \cup {url}
                  /\ proc_log' = Append(proc_log, <<url, depth>>)
                  /\ IF FirstStep(depth) = "done"
                     THEN UNCHANGED <<ctx, pc>>
                     ELSE /\ ctx' = [ctx EXCEPT ![0] =
                                       Task(url, depth, FirstStep(depth))]
                          /\ pc' = "task"
    /\ UNCHANGED <<cfgvars, appvars, envvars, use_selenium, driver, quits,
                   local_visited, all_data, batch, fold, fetches, http_log,
                   enq_log, disc_log, link_log, outcomes, produced, driver_errors>>

\* "while to_visit" finds the queue empty: return all_data.
CrawlReturn ==
    /\ phase = "run"
    /\ method = "crawl"
    /\ pc = "loop"
    /\ to_visit = << >>
    /\ pc' = "returned"
    /\ UNCHANGED <<cfgvars, appvars, envvars, use_selenium, driver, quits,
                   visited_urls, local_visited, to_visit, all_data, ctx,
                   batch, fold, histvars>>

\* The owner of the crawler calls crawl() again, with the same arguments,
\* on the instance whose earlier call returned.
CrawlAgain ==
    /\ caller = "direct"
    /\ phase = "run"
    /\ method = "crawl"
    /\ pc = "returned"
    /\ run < MaxRuns
    /\ run' = run + 1
    /\ pc' = "start"
    /\ UNCHANGED <<cfgvars, envvars, histvars, phase, job, active, clock,
                   stops, use_selenium, driver, quits, visited_urls,
                   local_visited, to_visit, all_data, ctx, batch, fold>>

----------------------------------------------------------------------------
(* parallel_crawl *)

Finished == {"done", "skipped", "raised"}

\* parallel_crawl() is entered: all_data = [], to_visit = [(start_url, 0)],
\* visited_urls = set(), visited_urls.add(start_url).
ParallelCrawl ==
    /\ phase = "run"
    /\ method = "parallel_crawl"
    /\ pc = "start"
    /\ all_data' = << >>
    /\ to_visit' = << <<start_url, 0>> >>
    /\ enq_log' = Append(enq_log, <<start_url, 0>>)
    /\ local_visited' = {start_url}
    /\ pc' = "loop"
    /\ UNCHANGED <<cfgvars, appvars, envvars, use_selenium, driver, quits,
                   visited_urls, ctx, batch, fold, fetches, http_log,
                   proc_log, disc_log, link_log, outcomes, produced, driver_errors>>

\* ProcessUrl with the depth test off by one.
ProcessUrlStopsEarly(task) ==
    IF task[2] >= max_depth THEN Task(task[1], task[2], "skipped")
    ELSE Task(task[1], task[2], FirstStep(task[2]))

\* process_url up to its first fetch: None when depth > max_depth.
ProcessUrl(task) ==
    IF task[2] > max_depth THEN Task(task[1], task[2], "skipped")
    ELSE Task(task[1], task[2], FirstStep(task[2]))

\* WaveSize of a loop that hands the pool one task at a time.
WaveSizeOne == Min(1, Len(to_visit))

\* The wave: min(max_workers, len(to_visit)) tasks from the head of the queue.
WaveSize == Min(max_workers, Len(to_visit))

\* One pass of "while to_visit": the batch is popped and handed to
\* executor.map, which starts process_url on every task of it.
Dispatch ==
    /\ phase = "run"
    /\ method = "parallel_crawl"
    /\ pc = "loop"
    /\ to_visit # << >>
    /\ batch' = SubSeq(to_visit, 1, WaveSize)
    /\ to_visit' = SubSeq(to_visit, WaveSize + 1, Len(to_visit))
    /\ ctx' = [w \in Threads |->
                 IF w \in 1..WaveSize THEN ProcessUrl(to_visit[w]) ELSE Idle]
    /\ proc_log' = proc_log \o
                     SelectSeq(SubSeq(to_visit, 1, WaveSize),
                               LAMBDA t : ~(t[2] > max_depth))
    /\ fold' = 0
    /\ pc' = "wave"
    /\ UNCHANGED <<cfgvars, appvars, envvars, use_selenium, driver, quits,
                   visited_urls, local_visited, all_data, fetches, http_log,
                   enq_log, disc_log, link_log, outcomes, produced, driver_errors>>

\* The position of worker w in its loop over links moves to the next link.
NextLink(c) ==
    IF c.i < Len(c.links) THEN [c EXCEPT !.i = c.i + 1, !.pc = "links_check"]
    ELSE [c EXCEPT !.pc = "done"]

\* process_url: "if link not in visited_urls" for the link at hand.
LinkCheck(w) ==
    /\ phase = "run"
    /\ ctx[w].pc = "links_check"
    /\ ctx' = [ctx EXCEPT ![w] =
                 IF ctx[w].links[ctx[w].i] \notin local_visited
                 THEN [ctx[w] EXCEPT !.pc = "links_add"]
                 ELSE NextLink(ctx[w])]
    /\ UNCHANGED <<cfgvars, appvars, envvars, use_selenium, driver, quits,
                   visited_urls, local_visited, to_visit, all_data, pc,
                   batch, fold, histvars>>

\* process_url: visited_urls.add(link); new_urls.append((link, depth + 1)).
LinkAdd(w) ==
    /\ phase = "run"
    /\ ctx[w].pc = "links_add"
    /\ local_visited' = local_visited \cup {ctx[w].links[ctx[w].i]}
    /\ ctx' = [ctx EXCEPT ![w] =
                 NextLink([ctx[w] EXCEPT !.new_urls =
                    Append(@, <<ctx[w].links[ctx[w].i], ctx[w].depth + 1>>)])]
    /\ UNCHANGED <<cfgvars, appvars, envvars, use_selenium, driver, quits,
                   visited_urls, to_visit, all_data, pc, batch, fold,
                   histvars>>

\* The results of the wave before the first task that raised, in batch
\* order: the ones the loop "for result in results" folds.
Folded ==
    LET bad == {w \in 1..Len(batch) : ctx[w].pc = "raised"}
        n   == IF bad = {} THEN Len(batch)
               ELSE (CHOOSE w \in bad : \A v \in bad : w <= v) - 1
    IN [w \in 1..n |-> ctx[w]]

RECURSIVE FoldData(_)
\* all_data.append(data) for every folded result that has a record.
FoldData(rs) ==
    IF rs = << >> THEN << >>
    ELSE (IF Head(rs).pc = "done" THEN Head(rs).data ELSE << >>)
         \o FoldData(Tail(rs))

RECURSIVE FoldUrls(_)
\* to_visit.extend(new_urls) for every folded result.
FoldUrls(rs) ==
    IF rs = << >> THEN << >>
    ELSE (IF Head(rs).pc = "done" THEN Head(rs).new_urls ELSE << >>)
         \o FoldUrls(Tail(rs))

\* "for result in results": each result of the wave is awaited in batch
\* order and folded into all_data and to_visit.  The exception of a task is
\* raised in its place; it leaves the "with ThreadPoolExecutor" block, whose
\* exit waits for the workers still running, and then parallel_crawl().
\* The loop touches nothing a worker reads, so it is taken as one step once
\* every worker of the wave has finished.
FoldResults ==
    /\ phase = "run"
    /\ pc = "wave"
    /\ \A w \in 1..Len(batch) : ctx[w].pc \in Finished
    /\ all_data' = all_data \o FoldData(Folded)
    /\ to_visit' = to_visit \o FoldUrls(Folded)
    /\ enq_log' = enq_log \o FoldUrls(Folded)
    /\ link_log' = link_log \cup UNION
          {{<<Folded[w].url, Folded[w].new_urls[k][1]>> :
                k \in 1..Len(Folded[w].new_urls)} :
             w \in {v \in 1..Len(Folded) : Folded[v].pc = "done"}}
    /\ pc' = IF Len(Folded) = Len(batch) THEN "loop" ELSE "raised"
    /\ ctx' = [w \in Threads |-> Idle]
    /\ fold' = Len(Folded)
    /\ UNCHANGED <<cfgvars, appvars, envvars, use_selenium, driver, quits,
                   visited_urls, local_visited, batch, fetches, http_log,
                   proc_log, disc_log, outcomes, produced, driver_errors>>

\* "while to_visit" finds the queue empty: return all_data.
ParallelReturn ==
    /\ phase = "run"
    /\ method = "parallel_crawl"
    /\ pc = "loop"
    /\ to_visit = << >>
    /\ pc' = "returned"
    /\ UNCHANGED <<cfgvars, appvars, envvars, use_selenium, driver, quits,
                   visited_urls, local_visited, to_visit, all_data, ctx,
                   batch, fold, histvars>>

----------------------------------------------------------------------------
(* The crawler run on its own *)

NoJob == [status |-> "none", completed |-> FALSE, end_time |-> 0,
          pages_crawled |-> 0, errors |-> 0]

\* The state after WebCrawler(...) was constructed: a crawler asked for
\* Selenium holds a live driver, unless _setup_selenium failed, which leaves
\* it with use_selenium = False and no driver.
EngineInit ==
    /\ method \in {"crawl", "parallel_crawl"}
    /\ start_url \in Seeds
    /\ max_depth \in 0..MaxDepth
    /\ selectors \in {"none", "valid", "invalid"}
    /\ restrict_domain \in BOOLEAN
    /\ max_workers \in 1..MaxWorkers
    /\ site \in Sites
    /\ use_selenium \in BOOLEAN
    /\ driver = [state |-> IF use_selenium THEN "live" ELSE "none",
                 page |-> NoPage]
    /\ quits = 0
    /\ visited_urls = {}
    /\ local_visited = {}
    /\ to_visit = << >>
    /\ all_data = << >>
    /\ pc = "start"
    /\ ctx = [w \in Threads |-> Idle]
    /\ batch = << >>
    /\ fold = 0
    /\ faults = 0
    /\ fetches = << >>
    /\ http_log = << >>
    /\ enq_log = << >>
    /\ proc_log = << >>
    /\ disc_log = {}
    /\ link_log = {}
    /\ outcomes = {}
    /\ produced = {}
    /\ driver_errors = << >>

Init ==
    /\ EngineInit
    /\ caller = "direct"
    /\ phase = "run"
    /\ job = NoJob
    /\ active = FALSE
    /\ clock = 0
    /\ stops = 0
    /\ run = 1
    /\ url_arg = << >>
    /\ extract_arg = NoExtract
    /\ ret = << >>

Next ==
    \/ Crawl
    \/ CrawlPop
    \/ CrawlReturn
    \/ CrawlAgain
    \/ ParallelCrawl
    \/ Dispatch
    \/ FoldResults
    \/ ParallelReturn
    \/ \E w \in Threads : GetPageContent(w)
    \/ \E w \in Threads : PageSource(w)
    \/ \E w \in Threads : LinkCheck(w)
    \/ \E w \in Threads : LinkAdd(w)

Spec == Init /\ [][Next]_vars

\* The threads of a run keep running: every call they make returns or
\* raises.
FairSpec == Spec /\ WF_vars(Next)


----------------------------------------------------------------------------
(* crawl and then parallel_crawl with one worker, on the same arguments *)

\* A fresh crawler is about to run crawl() on a site that answers every
\* request for a page it serves; ret will keep what crawl() did.
PairInit ==
    /\ caller = "pair"
    /\ phase = "run"
    /\ method = "crawl"
    /\ start_url \in Seeds
    /\ max_depth \in 0..MaxDepth
    /\ selectors \in {"none", "valid", "invalid"}
    /\ restrict_domain \in BOOLEAN
    /\ max_workers = 1
    /\ site \in Sites
    /\ use_selenium \in BOOLEAN
    /\ driver = [state |-> IF use_selenium THEN "live" ELSE "none",
                 page |-> NoPage]
    /\ quits = 0
    /\ visited_urls = {}
    /\ local_visited = {}
    /\ to_visit = << >>
    /\ all_data = << >>
    /\ pc = "start"
    /\ ctx = [w \in Threads |-> Idle]
    /\ batch = << >>
    /\ fold = 0
    /\ faults = MaxFaults
    /\ fetches = << >>
    /\ http_log = << >>
    /\ enq_log = << >>
    /\ proc_log = << >>
    /\ disc_log = {}
    /\ link_log = {}
    /\ outcomes = {}
    /\ produced = {}
    /\ driver_errors = << >>
    /\ job = NoJob
    /\ active = FALSE
    /\ clock = 0
    /\ stops = 0
    /\ run = 1
    /\ url_arg = << >>
    /\ extract_arg = NoExtract
    /\ ret = << >>

\* crawl() has returned: what it processed and returned is kept, and
\* parallel_crawl() is called with the same arguments on a new
\* WebCrawler(max_workers=1).
ParallelAfterCrawl ==
    /\ caller = "pair"
    /\ method = "crawl"
    /\ pc = "returned"
    /\ ret' = <<[order |-> proc_log, data |-> all_data]>>
    /\ method' = "parallel_crawl"
    /\ driver' = [state |-> IF use_selenium THEN "live" ELSE "none",
                  page |-> NoPage]
    /\ visited_urls' = {}
    /\ pc' = "start"
    /\ fetches' = << >>
    /\ http_log' = << >>
    /\ enq_log' = << >>
    /\ proc_log' = << >>
    /\ disc_log' = {}
    /\ link_log' = {}
    /\ outcomes' = {}
    /\ produced' = {}
    /\ driver_errors' = << >>
    /\ UNCHANGED <<start_url, max_depth, selectors, restrict_domain,
                   max_workers, site, caller, url_arg, extract_arg,
                   use_selenium, quits, local_visited, to_visit, all_data,
                   ctx, batch, fold, envvars, appvars>>

PairNext ==
    \/ Crawl
    \/ CrawlPop
    \/ CrawlReturn
    \/ ParallelAfterCrawl
    \/ ParallelCrawl
    \/ Dispatch
    \/ FoldResults
    \/ ParallelReturn
    \/ \E w \in Threads : GetPageContent(w)
    \/ \E w \in Threads : PageSource(w)
    \/ \E w \in Threads : LinkCheck(w)
    \/ \E w \in Threads : LinkAdd(w)

PairSpec == PairInit /\ [][PairNext]_vars

----------------------------------------------------------------------------
(* The callers: the web layer (app.py) and the command line (cli.py) *)

\* A URL string is a sequence of tokens: a token is a run of characters
\* that has no delimiter in it, or one delimiter.
Letters == {"http", "https", "ftp", "HTTP", "a.com", "p", "q", "f", "x"}
HttpPrefix  == <<"http", ":", "/", "/">>
HttpsPrefix == <<"https", ":", "/", "/">>

RECURSIVE Str(_)
\* The Python string of a token sequence.
Str(s) == IF s = << >> THEN "" ELSE Head(s) \o Str(Tail(s))

\* str.lower() on a token.
Lower(t) == IF t = "HTTP" THEN "http" ELSE t

\* s.startswith(prefix)
StartsWith(s, prefix) ==
    Len(s) >= Len(prefix) /\ SubSeq(s, 1, Len(prefix)) = prefix

\* s.find of the first token of D at or after position from, or Len(s) + 1.
Find(s, D, from) ==
    LET I == {i \in from..Len(s) : s[i] \in D}
    IN IF I = {} THEN Len(s) + 1 ELSE CHOOSE i \in I : \A j \in I : i <= j

\* s[:i-1] and s[i:] of a token sequence (positions from 1).
Before(s, i) == SubSeq(s, 1, i - 1)
From(s, i) == SubSeq(s, i, Len(s))

\* s.rfind('/'), or 0.
LastSlash(s) ==
    LET I == {i \in 1..Len(s) : s[i] = "/"}
    IN IF I = {} THEN 0 ELSE CHOOSE i \in I : \A j \in I : i >= j

\* urllib.parse.urlparse on a token sequence: the scheme is what precedes
\* the first ':' when that is made of scheme characters, lowercased; the
\* netloc follows '//' up to the next '/', '?' or '#'; the fragment
\* follows the first '#', the query the first '?'; the parameters that
\* follow the first ';' of the last path segment are split off the path.
UrlTokens(s) ==
    LET c         == Find(s, {":"}, 1)
        hasScheme == /\ 1 < c
                     /\ c <= Len(s)
                     /\ \A j \in 1..(c - 1) : s[j] \in Letters
        r1        == IF hasScheme THEN From(s, c + 1) ELSE s
        hasNet    == StartsWith(r1, <<"/", "/">>)
        r2        == IF hasNet THEN From(r1, 3) ELSE r1
        n         == IF hasNet THEN Find(r2, {"/", "?", "#"}, 1) ELSE 1
        r3        == From(r2, n)
        h         == Find(r3, {"#"}, 1)
        r4        == Before(r3, h)
        q         == Find(r4, {"?"}, 1)
        path      == Before(r4, q)
    IN [scheme   |-> IF hasScheme THEN [j \in 1..(c - 1) |-> Lower(s[j])]
                     ELSE << >>,
        netloc   |-> Before(r2, n),
        path     |-> Before(path, Find(path, {";"}, LastSlash(path) + 1)),
        query    |-> From(r4, q + 1),
        fragment |-> From(r3, h + 1)]

\* urlparse(s) with its components as strings.
urlparse(s) ==
    LET t == UrlTokens(s)
    IN [scheme |-> Str(t.scheme), netloc |-> Str(t.netloc),
        path |-> Str(t.path), query |-> Str(t.query),
        fragment |-> Str(t.fragment)]

\* normalize_url that prepends 'https://' without looking at the input.
normalize_url_always_prefixed(url) ==
    LET parsed == UrlTokens(HttpsPrefix \o url)
    IN parsed.scheme \o <<":", "/", "/">> \o parsed.netloc
       \o (IF parsed.path = << >> THEN <<"/">> ELSE parsed.path)
       \o (IF parsed.query # << >> THEN <<"?">> \o parsed.query ELSE << >>)

\* crawler_utils.normalize_url: 'https://' is prepended unless the string
\* starts with 'http://' or 'https://'; the result is scheme://netloc, the
\* path or '/', and '?query' when the query is not empty.
normalize_url(url) ==
    LET parsed == UrlTokens(IF \/ StartsWith(url, HttpPrefix)
                               \/ StartsWith(url, HttpsPrefix)
                            THEN url
                            ELSE HttpsPrefix \o url)
    IN parsed.scheme \o <<":", "/", "/">> \o parsed.netloc
       \o (IF parsed.path = << >> THEN <<"/">> ELSE parsed.path)
       \o (IF parsed.query # << >> THEN <<"?">> \o parsed.query ELSE << >>)

\* The URL strings a user may give.
ArgUrls == {<< >>, <<"a.com">>, HttpsPrefix \o <<"a.com", "/">>}

\* WebCrawler.close(): "if self.use_selenium and hasattr(self, 'driver'):
\* self.driver.quit()".
ClosesDriver == use_selenium /\ driver.state # "none"

\* The driver after close().
Closed == IF ClosesDriver THEN [driver EXCEPT !.state = "quit"] ELSE driver

\* The number of driver.quit() calls after close().
QuitsAfterClose == IF ClosesDriver THEN quits + 1 ELSE quits

\* WebCrawler.__init__: with use_selenium set, _setup_selenium either leaves
\* a driver or fails and resets use_selenium.
Construct(requested) ==
    \E ok \in BOOLEAN :
        /\ use_selenium' = (requested /\ ok)
        /\ driver' = [state |-> IF requested /\ ok THEN "live" ELSE "none",
                      page |-> NoPage]

\* What the caller is asked to do: the request or the command line, before
\* any crawler exists.
AppInit ==
    /\ caller \in {"web", "cli"}
    /\ phase = "request"
    /\ method = "crawl"
    /\ url_arg \in ArgUrls
    /\ extract_arg = NoExtract
    /\ ret = << >>
    /\ start_url = NoUrl
    /\ max_depth \in 0..MaxDepth
    /\ selectors \in {"none", "valid", "invalid", "malformed"}
    /\ caller = "web" => selectors # "malformed"
    /\ restrict_domain \in BOOLEAN
    /\ max_workers = MaxWorkers
    /\ site \in Sites
    /\ use_selenium \in BOOLEAN
    /\ driver = [state |-> "none", page |-> NoPage]
    /\ quits = 0
    /\ visited_urls = {}
    /\ local_visited = {}
    /\ to_visit = << >>
    /\ all_data = << >>
    /\ pc = "start"
    /\ ctx = [w \in Threads |-> Idle]
    /\ batch = << >>
    /\ fold = 0
    /\ faults = 0
    /\ fetches = << >>
    /\ http_log = << >>
    /\ enq_log = << >>
    /\ proc_log = << >>
    /\ disc_log = {}
    /\ link_log = {}
    /\ outcomes = {}
    /\ produced = {}
    /\ driver_errors = << >>
    /\ job = NoJob
    /\ active = FALSE
    /\ clock = 0
    /\ stops = 0
    /\ run = 1

\* app.start_crawl: a request without start_url is turned away; otherwise
\* the crawler is constructed and registered, the status is initialised and
\* the thread of crawl_task is started.
StartCrawl ==
    /\ caller = "web"
    /\ phase = "request"
    /\ IF url_arg = << >>
       THEN /\ phase' = "rejected"
            /\ UNCHANGED <<use_selenium, driver, active, job, start_url>>
       ELSE /\ Construct(use_selenium)
            /\ start_url' = urlparse(url_arg)
            /\ active' = TRUE
            /\ job' = [status |-> "running", completed |-> FALSE,
                       end_time |-> 0, pages_crawled |-> 0, errors |-> 0]
            /\ phase' = "run"
    /\ UNCHANGED <<method, max_depth, selectors, restrict_domain,
                   max_workers, site, caller, fnvars, envvars, histvars,
                   quits, visited_urls, local_visited, to_visit, all_data,
                   pc, ctx, batch, fold, clock, stops, run>>

\* TaskEnd with crawler.close() at the end of the try block instead of in
\* a finally clause.
TaskEndCloseInTry ==
    /\ caller = "web"
    /\ phase = "run"
    /\ pc \in {"returned", "raised"}
    /\ job' = IF pc = "returned"
              THEN [job EXCEPT !.status = "completed",
                               !.pages_crawled = Cardinality(visited_urls),
                               !.completed = TRUE,
                               !.end_time = clock + 1]
              ELSE [job EXCEPT !.status = "error",
                               !.errors = @ + 1,
                               !.completed = TRUE,
                               !.end_time = clock + 1]
    /\ clock' = clock + 1
    /\ driver' = IF pc = "returned" THEN Closed ELSE driver
    /\ quits' = IF pc = "returned" THEN QuitsAfterClose ELSE quits
    /\ phase' = "finished"
    /\ UNCHANGED <<cfgvars, envvars, histvars, use_selenium, visited_urls,
                   local_visited, to_visit, all_data, pc, ctx, batch, fold,
                   active, stops, run>>

\* crawl_task after crawler.crawl(): the status becomes 'completed', or
\* 'error' when crawl() raised, and "finally: crawler.close()".
TaskEnd ==
    /\ caller = "web"
    /\ phase = "run"
    /\ pc \in {"returned", "raised"}
    /\ job' = IF pc = "returned"
              THEN [job EXCEPT !.status = "completed",
                               !.pages_crawled = Cardinality(visited_urls),
                               !.completed = TRUE,
                               !.end_time = clock + 1]
              ELSE [job EXCEPT !.status = "error",
                               !.errors = @ + 1,
                               !.completed = TRUE,
                               !.end_time = clock + 1]
    /\ clock' = clock + 1
    /\ driver' = Closed
    /\ quits' = QuitsAfterClose
    /\ phase' = "finished"
    /\ UNCHANGED <<cfgvars, envvars, histvars, use_selenium, visited_urls,
                   local_visited, to_visit, all_data, pc, ctx, batch, fold,
                   active, stops, run>>

\* app.stop_job: for a job in active_crawlers, crawler.close() and the
\* status becomes 'stopped'; otherwise only a message.
StopJob ==
    /\ caller = "web"
    /\ stops < MaxStops
    /\ stops' = stops + 1
    /\ IF active
       THEN /\ driver' = Closed
            /\ quits' = QuitsAfterClose
            /\ job' = [job EXCEPT !.status = "stopped",
                                  !.completed = TRUE,
                                  !.end_time = clock + 1]
            /\ clock' = clock + 1
       ELSE UNCHANGED <<driver, quits, job, clock>>
    /\ UNCHANGED <<cfgvars, envvars, histvars, use_selenium, visited_urls,
                   local_visited, to_visit, all_data, pc, ctx, batch, fold,
                   active, phase, run>>

\* cli.crawl_command up to the call of crawl(): --selectors that is not
\* JSON ends the command with sys.exit(1); otherwise the crawler is
\* constructed and the seed is normalized.
CrawlCommand ==
    /\ caller = "cli"
    /\ phase = "request"
    /\ url_arg # << >>
    /\ IF selectors = "malformed"
       THEN /\ phase' = "rejected"
            /\ UNCHANGED <<use_selenium, driver, start_url>>
       ELSE /\ Construct(use_selenium)
            /\ start_url' = urlparse(normalize_url(url_arg))
            /\ phase' = "run"
    /\ UNCHANGED <<method, max_depth, selectors, restrict_domain,
                   max_workers, site, caller, fnvars, envvars, histvars,
                   quits, visited_urls, local_visited, to_visit, all_data,
                   pc, ctx, batch, fold, job, active, clock, stops, run>>

\* The user interrupts the command while crawl() runs: KeyboardInterrupt
\* is raised in the thread of crawl().
Interrupt ==
    /\ caller = "cli"
    /\ phase = "run"
    /\ pc \in {"start", "loop", "task"}
    /\ pc' = "interrupted"
    /\ UNCHANGED <<cfgvars, envvars, histvars, appvars, use_selenium, driver,
                   quits, visited_urls, local_visited, to_visit, all_data,
                   ctx, batch, fold>>

\* crawl_command after crawl(): its return, "except KeyboardInterrupt" or
\* "except Exception", and "finally: crawler.close()".
CommandEnd ==
    /\ caller = "cli"
    /\ phase = "run"
    /\ pc \in {"returned", "raised", "interrupted"}
    /\ driver' = Closed
    /\ quits' = QuitsAfterClose
    /\ phase' = "finished"
    /\ UNCHANGED <<cfgvars, envvars, histvars, use_selenium, visited_urls,
                   local_visited, to_visit, all_data, pc, ctx, batch, fold,
                   job, active, clock, stops, run>>

\* The steps of the thread that runs crawl() for a caller.
CrawlThread ==
    \/ Crawl
    \/ CrawlPop
    \/ CrawlReturn
    \/ GetPageContent(0)
    \/ PageSource(0)
    \/ TaskEnd
    \/ CommandEnd

AppNext ==
    \/ StartCrawl
    \/ CrawlCommand
    \/ StopJob
    \/ Interrupt
    \/ CrawlThread

AppSpec == AppInit /\ [][AppNext]_vars

\* A started thread keeps running: every call it makes returns.
FairAppSpec == AppSpec /\ WF_vars(CrawlThread)


----------------------------------------------------------------------------
(* The functions of crawler_utils.py and extract_data, called on their own *)

\* The strings normalize_url is given: an optional scheme, '//', host,
\* path (with or without parameters), query and fragment.
UrlStrings ==
    {sc \o sl \o ho \o pa \o qu \o fr :
        sc \in {<< >>, <<"http", ":">>, <<"https", ":">>, <<"HTTP", ":">>,
                <<"ftp", ":">>},
        sl \in {<< >>, <<"/", "/">>},
        ho \in {<< >>, <<"a.com">>},
        pa \in {<< >>, <<"/">>, <<"/", "p">>, <<"/", "p", ";", "x">>},
        qu \in {<< >>, <<"?">>, <<"?", "q">>},
        fr \in {<< >>, <<"#", "f">>}}

\* The values of a record: None, a string, a list of strings, a timestamp.
None == [kind |-> "null", texts |-> << >>]
String(t) == [kind |-> "str", texts |-> <<t>>]
List(ts) == [kind |-> "list", texts |-> ts]
Timestamp == [kind |-> "time", texts |-> << >>]

\* The field names of a selector map and the stripped texts of nodes.
Fields == {"title", "url", "crawl_date"}
Texts == {"", "t"}

\* The texts of the nodes soup.select(selector) returns, in document order.
Matches == UNION {[1..n -> Texts] : n \in 0..MaxMatches}

\* What a call of extract_data is given: for every field of the selector
\* map the nodes its selector matches, and the db_type of the database
\* manager ("none" when the crawler has none).
ExtractArgs ==
    {[matches |-> m, db |-> d] :
        m \in UNION {[F -> Matches] : F \in SUBSET Fields},
        d \in {"none", "sqlite", "mongodb", "csv", "json"}}

\* DatabaseManager.save_data as data sees it: the mongodb and json
\* branches set data['crawl_date'].
save_data(data, db) ==
    IF db \in {"mongodb", "json"}
    THEN [f \in DOMAIN data \cup {"crawl_date"} |->
             IF f = "crawl_date" THEN Timestamp ELSE data[f]]
    ELSE data

\* The value extract_data gives a field whose selector matched elements.
FieldValue(elements) ==
    IF elements # << >>
    THEN IF Len(elements) = 1 THEN String(elements[1]) ELSE List(elements)
    ELSE None

\* extract_data after a successful fetch: data = {'url': url}, then
\* data[field] is assigned for every field of the selector map, then the
\* record is handed to save_data and returned.
extract_data(url, matches, db) ==
    LET data == [f \in {"url"} \cup DOMAIN matches |->
                    IF f \in DOMAIN matches THEN FieldValue(matches[f])
                    ELSE String(url)]
    IN IF db # "none" THEN save_data(data, db) ELSE data

\* A call is about to be made; no crawler runs.
FnInit ==
    /\ \/ url_arg \in UrlStrings /\ extract_arg = NoExtract
       \/ url_arg = HttpsPrefix \o <<"a.com", "/">> /\ extract_arg \in ExtractArgs
    /\ ret = << >>
    /\ caller = "direct"
    /\ phase = "call"
    /\ method = "crawl"
    /\ start_url = NoUrl
    /\ max_depth = 0
    /\ selectors = "none"
    /\ restrict_domain = TRUE
    /\ max_workers = 1
    /\ site = SiteDiamond
    /\ use_selenium = FALSE
    /\ driver = [state |-> "none", page |-> NoPage]
    /\ quits = 0
    /\ visited_urls = {}
    /\ local_visited = {}
    /\ to_visit = << >>
    /\ all_data = << >>
    /\ pc = "start"
    /\ ctx = [w \in Threads |-> Idle]
    /\ batch = << >>
    /\ fold = 0
    /\ faults = 0
    /\ fetches = << >>
    /\ http_log = << >>
    /\ enq_log = << >>
    /\ proc_log = << >>
    /\ disc_log = {}
    /\ link_log = {}
    /\ outcomes = {}
    /\ produced = {}
    /\ driver_errors = << >>
    /\ job = NoJob
    /\ active = FALSE
    /\ clock = 0
    /\ stops = 0
    /\ run = 0

\* normalize_url is called on the string, and then on what it returned.
Normalize ==
    /\ phase = "call"
    /\ extract_arg = NoExtract
    /\ Len(ret) < MaxCalls
    /\ ret' = Append(ret, normalize_url(IF ret = << >> THEN url_arg
                                        ELSE ret[Len(ret)]))
    /\ UNCHANGED <<method, start_url, max_depth, selectors, restrict_domain,
                   max_workers, site, caller, url_arg, extract_arg, engvars,
                   envvars, histvars, appvars>>

\* extract_data is called on a page that was fetched.
ExtractData ==
    /\ phase = "call"
    /\ extract_arg # NoExtract
    /\ ret = << >>
    /\ ret' = <<extract_data(Str(url_arg), extract_arg.matches,
                             extract_arg.db)>>
    /\ UNCHANGED <<method, start_url, max_depth, selectors, restrict_domain,
                   max_workers, site, caller, url_arg, extract_arg, engvars,
                   envvars, histvars, appvars>>

FnNext ==
    \/ Normalize
    \/ ExtractData

FnSpec == FnInit /\ [][FnNext]_vars

----------------------------------------------------------------------------
(* Properties of the traversal *)

\* The URLs of a sequence of tasks.
UrlsOf(tasks) == {tasks[k][1] : k \in 1..Len(tasks)}

\* No two tasks of the sequence have the same URL.
DistinctUrls(tasks) ==
    \A i, j \in 1..Len(tasks) : tasks[i][1] = tasks[j][1] => i = j

\* C1: in parallel_crawl with max_workers >= 2, no URL is appended to the
\* work queue more than once in one run, whatever the interleaving of the
\* workers of a wave.
C1_NoUrlQueuedTwice ==
    (method = "parallel_crawl" /\ max_workers >= 2) => DistinctUrls(enq_log)

\* C2: in crawl, every URL is processed (marked visited, extracted,
\* expanded) at most once per run, however often it was discovered or
\* queued, and the result holds at most one record per URL.
C2_ProcessedOnce ==
    method = "crawl" =>
        /\ DistinctUrls(proc_log)
        /\ \A d, e \in disc_log : d[1] = e[1] => d = e
        /\ \A i, j \in 1..Len(all_data) :
              all_data[i].url = all_data[j].url => i = j

\* C2's case: crawl returned after a URL that was queued more than once was
\* processed and recorded.
C2_Witness ==
    /\ method = "crawl"
    /\ pc = "returned"
    /\ \E i, j \in 1..Len(enq_log) :
          /\ i # j
          /\ enq_log[i][1] = enq_log[j][1]
          /\ enq_log[i][1] \in UrlsOf(proc_log)
          /\ \E k \in 1..Len(all_data) : all_data[k].url = enq_log[i][1]

\* C3: during one run, _get_page_content is invoked at most once for any
\* given URL.
C3_FetchedAtMostOnce ==
    \A u \in DOMAIN fetches : fetches[u] <= 1

\* C4: no task deeper than max_depth is ever created or queued, every
\* record comes from a task of depth <= max_depth, and extract_links is not
\* invoked for a task at depth max_depth.
C4_DepthBound ==
    /\ \A k \in 1..Len(enq_log) : enq_log[k][2] <= max_depth
    /\ \A k \in 1..Len(to_visit) : to_visit[k][2] <= max_depth
    /\ \A w \in Threads : \A k \in 1..Len(ctx[w].new_urls) :
          ctx[w].new_urls[k][2] <= max_depth
    /\ \A k \in 1..Len(proc_log) : proc_log[k][2] <= max_depth
    /\ \A r \in produced \cup {all_data[k] : k \in 1..Len(all_data)} :
          \E k \in 1..Len(proc_log) :
              proc_log[k][1] = r.url /\ proc_log[k][2] <= max_depth
    /\ \A d \in disc_log : d[2] < max_depth

\* C4's case: a run that went below the seed returned after a page at depth
\* max_depth that has links was fetched and recorded.
C4_Witness ==
    /\ pc = "returned"
    /\ max_depth >= 1
    /\ \E k \in 1..Len(proc_log) :
          /\ proc_log[k][2] = max_depth
          /\ Hrefs(Resource(proc_log[k][1])) # << >>
          /\ \E i \in 1..Len(all_data) : all_data[i].url = proc_log[k][1]

\* C5: with restrict_domain, every queued link has the netloc of the page it
\* was found on, so every task and every visited URL has the seed's netloc.
C5_SameHost ==
    restrict_domain =>
        /\ \A e \in link_log : e[2].netloc = e[1].netloc
        /\ \A w \in Threads : \A k \in 1..Len(ctx[w].links) :
              ctx[w].links[k].netloc = ctx[w].url.netloc
        /\ \A u \in UrlsOf(enq_log) \cup UrlsOf(proc_log)
                    \cup visited_urls \cup local_visited :
              u.netloc = start_url.netloc

\* C5's case: with restrict_domain, a run returned after it fetched and
\* expanded a page that links to another host.
C5_Witness ==
    /\ restrict_domain
    /\ pc = "returned"
    /\ site = SiteMixed
    /\ \E o \in outcomes :
          /\ o.url = A
          /\ o.phase = "links"
          /\ o.success
          /\ B \in {urljoin(A, Hrefs(o.content)[k]) :
                      k \in 1..Len(Hrefs(o.content))}
    /\ Len(enq_log) >= 2


----------------------------------------------------------------------------
(* Properties of error handling *)

\* The final response of a fetch was not a 200: a non-200 status or a
\* transport error.
FetchFailed(o) == o.resp \in {"non200", "RequestException"}

\* The thread of crawl() is not processing u (any more).
Processed(u) == u \in visited_urls /\ ctx[0].url # u

\* In every state of crawl: a URL whose fetch failed is in the visited set,
\* a failed fetch of extract_data leaves no record, a failed fetch of
\* extract_links queues no link, and a run that returned has processed
\* every task it ever queued.
C6_FailedState ==
    method = "crawl" =>
        /\ \A o \in outcomes : FetchFailed(o) =>
              /\ o.url \in visited_urls
              /\ o.phase = "data" =>
                    \A k \in 1..Len(all_data) : all_data[k].url # o.url
              /\ o.phase = "links" => \A e \in link_log : e[1] # o.url
        /\ pc = "returned" =>
              to_visit = << >> /\ UrlsOf(enq_log) \subseteq visited_urls

\* In every step of crawl: a URL already processed is not fetched again, and
\* the step in which a fetch fails neither ends the run nor changes the
\* queue.
C6_FailedStep ==
    method = "crawl" =>
        /\ \A u \in visited_urls :
              Processed(u) => Count(fetches', u) = Count(fetches, u)
        /\ (\E o \in outcomes' \ outcomes : FetchFailed(o)) =>
              pc' \in {"task", "loop"} /\ to_visit' = to_visit

C7_TaskFaultsContained == ~(pc = "raised" /\ to_visit # << >>)

----------------------------------------------------------------------------
(* Properties of the callers *)

\* C9: for a crawl started through the web layer or the command line, the
\* driver acquired when the crawler was constructed is eventually released
\* by close(), on every exit path of the run.
C9_SessionReleased == (driver.state = "live") ~> (driver.state = "quit")

\* C9's case: a crawl of the web layer that held a driver ended by an
\* exception, no stop was requested, and the driver was quit once.
C9_Witness ==
    /\ caller = "web"
    /\ phase = "finished"
    /\ pc = "raised"
    /\ stops = 0
    /\ driver.state = "quit"
    /\ quits = 1

\* C10: a stop request for a job that is already stopped is a no-op: it
\* does not quit the driver again and leaves the job's status record
\* unchanged.
C10_SecondStopIsNoOp ==
    [][(job.status = "stopped" /\ stops' # stops) =>
          (quits' = quits /\ job' = job)]_vars


----------------------------------------------------------------------------
(* Properties of normalize_url *)

\* C11: normalize_url is idempotent: normalizing a normalized string gives
\* the same string.
C11_Idempotent == Len(ret) = 2 => ret[2] = ret[1]

\* C11's case: normalize_url was applied twice to a string it had to change
\* in scheme, path and fragment.
C11_Witness ==
    /\ Len(ret) = 2
    /\ url_arg = <<"a.com", "#", "f">>
    /\ ret[1] = HttpsPrefix \o <<"a.com", "/">>

\* The components the input names: those of the input read with the
\* default scheme when it has neither a scheme nor '//', else its own.
Given(url) ==
    IF urlparse(url).scheme = "" /\ ~StartsWith(url, <<"/", "/">>)
    THEN urlparse(HttpsPrefix \o url)
    ELSE urlparse(url)

\* C12: the output of normalize_url has no fragment, has scheme https when
\* the input gave no http/https scheme and the given scheme otherwise, has
\* a non-empty path ('/' for an empty one), and has the host, path and
\* query of the input.
C12_NormalForm ==
    Len(ret) >= 1 =>
        LET in  == Given(url_arg)
            out == urlparse(ret[1])
        IN /\ out.fragment = ""
           /\ out.scheme = IF in.scheme \in {"http", "https"}
                           THEN in.scheme ELSE "https"
           /\ out.path = IF in.path = "" THEN "/" ELSE in.path
           /\ out.netloc = in.netloc
           /\ out.query = in.query


\* Two URLs normalize identically: same scheme, host, path (an empty path
\* being '/') and query.
SameNormalized(u, v) ==
    /\ u.scheme = v.scheme
    /\ u.netloc = v.netloc
    /\ (IF u.path = "" THEN "/" ELSE u.path) =
       (IF v.path = "" THEN "/" ELSE v.path)
    /\ u.query = v.query

\* C13: within one run, of the URLs that normalize identically at most one
\* is marked visited, fetched and recorded.
C13_NormalizedOnce ==
    /\ \A u, v \in visited_urls \cup DOMAIN fetches :
          SameNormalized(u, v) => u = v
    /\ \A i, j \in 1..Len(all_data) :
          SameNormalized(all_data[i].url, all_data[j].url) => i = j


----------------------------------------------------------------------------
(* Properties of extract_data *)

\* C14: in the record extract_data returns, every field of the selector map
\* is None when its selector matched no node, one string when it matched
\* one node, and the list of the nodes' texts in document order when it
\* matched two or more; the url field is the URL of the page.
C14_CardinalityLaw ==
    (extract_arg # NoExtract /\ Len(ret) = 1) =>
        LET data == ret[1]
            m    == extract_arg.matches
        IN /\ "url" \in DOMAIN data
           /\ data["url"] = String(Str(url_arg))
           /\ \A f \in DOMAIN m :
                 /\ f \in DOMAIN data
                 /\ Len(m[f]) = 0 => data[f] = None
                 /\ Len(m[f]) = 1 => data[f] = String(m[f][1])
                 /\ Len(m[f]) >= 2 => data[f] = List(m[f])


----------------------------------------------------------------------------
(* Properties of a run as its caller sees it *)

\* C15: a run whose seed was given as 'a.com', with max_depth = 0 and
\* selectors, on a site that serves every request, ends with the visited
\* set {https://a.com/}, one record whose url is https://a.com/, and no
\* other URL queued or fetched.
C15_SchemelessSeed ==
    (/\ url_arg = <<"a.com">>
     /\ max_depth = 0
     /\ selectors = "valid"
     /\ faults = 0
     /\ pc = "returned") =>
        /\ visited_urls = {A}
        /\ Len(all_data) = 1
        /\ all_data[1].url = A
        /\ enq_log = << <<A, 0>> >>
        /\ DOMAIN fetches = {A}


\* C16: when crawl or parallel_crawl has returned, the url of every record
\* of the result is in the crawler's visited set, self.visited_urls.
C16_RecordsVisited ==
    pc = "returned" =>
        \A k \in 1..Len(all_data) : all_data[k].url \in visited_urls


\* The number of times the seed was processed.
SeedRuns == Cardinality({i \in 1..Len(proc_log) : proc_log[i] = <<start_url, 0>>})

\* C17: every call of crawl starts from an empty visited set, so that it
\* visits what an earlier call on the same instance with the same seed
\* visited: when a call returns, its seed has been processed in it.
C17_RunOwnsVisited ==
    method = "crawl" =>
        /\ pc = "start" => visited_urls = {}
        /\ pc = "returned" => SeedRuns = run


----------------------------------------------------------------------------
(* Properties of the pool of parallel_crawl *)

\* The links extract_links finds on u's own page.
OwnLinks(u) ==
    LET ls == FilterLinks(Hrefs(Rendered(u)), u, restrict_domain)
    IN {ls[k] : k \in 1..Len(ls)}

\* C18: in parallel_crawl with the browser, whatever the interleaving of
\* the workers, a fetch of u returns the content of u, the record of u is
\* made of it, and the links queued for u are links of u's page.
C18_OwnContent ==
    (method = "parallel_crawl" /\ use_selenium) =>
        /\ \A o \in outcomes : o.success => o.content = Rendered(o.url)
        /\ \A k \in 1..Len(all_data) :
              all_data[k].src = Rendered(all_data[k].url)
        /\ \A e \in link_log : e[2] \in OwnLinks(e[1])


RECURSIVE LinksFound(_)
\* The number of links the first n workers of the wave found.
LinksFound(n) ==
    IF n = 0 THEN 0 ELSE Len(ctx[n].new_urls) + LinksFound(n - 1)

\* The workers whose task has begun and has not completed.
InFlight ==
    {w \in 1..MaxWorkers :
        ctx[w].pc \notin {"idle", "done", "skipped", "raised"}}

\* In every state of parallel_crawl: at most max_workers tasks are in
\* flight, all of them tasks of the current wave, and none between waves.
C19_WaveState ==
    method = "parallel_crawl" =>
        /\ Cardinality(InFlight) <= max_workers
        /\ InFlight \subseteq 1..Len(batch)
        /\ pc # "wave" => InFlight = {}

\* In every step of parallel_crawl: a wave is formed of the first
\* min(max_workers, len(to_visit)) tasks of the queue, when no task is in
\* flight; and the loop goes on to the next wave only when every task of
\* the wave has completed and the links each found are in the queue.
C19_WaveStep ==
    method = "parallel_crawl" =>
        /\ (pc = "loop" /\ pc' = "wave") =>
              LET n == IF max_workers < Len(to_visit) THEN max_workers
                       ELSE Len(to_visit)
              IN /\ InFlight = {}
                 /\ batch' = SubSeq(to_visit, 1, n)
                 /\ to_visit' = SubSeq(to_visit, n + 1, Len(to_visit))
        /\ (pc = "wave" /\ pc' = "loop") =>
              /\ InFlight = {}
              /\ Len(to_visit') = Len(to_visit) +
                    LinksFound(Len(batch))
              /\ \A w \in 1..Len(batch) :
                    \A k \in 1..Len(ctx[w].new_urls) :
                       \E i \in (Len(to_visit) + 1)..Len(to_visit') :
                          to_visit'[i] = ctx[w].new_urls[k]

\* C19: in parallel_crawl at most max_workers tasks are in flight, each
\* wave is the first min(max_workers, queue length) tasks of the queue, and
\* no task of a later wave starts before every task of the current wave
\* has completed and its links have been appended to the queue.
C19_Waves == []C19_WaveState /\ [][C19_WaveStep]_vars

\* C19's case: after an earlier wave, a wave of two tasks is in flight in
\* a pool of two workers.
C19_Witness ==
    /\ method = "parallel_crawl"
    /\ max_workers = 2
    /\ pc = "wave"
    /\ Len(batch) = 2
    /\ InFlight = {1, 2}
    /\ Len(proc_log) >= 3


----------------------------------------------------------------------------
(* Properties of cancellation *)

\* C20: once stop_job has returned for a running job, the thread of
\* crawl_task takes no further URL from the queue and fetches none.
C20_StopHalts ==
    [][(caller = "web" /\ phase = "run" /\ job.status = "stopped") =>
          (proc_log' = proc_log /\ fetches' = fetches)]_vars


----------------------------------------------------------------------------
(* Properties of the status record *)

\* C21: once the status of a job is 'completed', 'error' or 'stopped', no
\* step of the crawl thread or of stop_job changes the status or the
\* end_time again.
C21_FinalStatus ==
    [][job.status \in {"completed", "error", "stopped"} =>
          (job'.status = job.status /\ job'.end_time = job.end_time)]_vars


----------------------------------------------------------------------------
(* Properties of a single fetch *)

\* C22: the step in which a browser failure is answered by the plain fetch
\* leaves use_selenium and the driver as they were, and in a crawler that
\* has had such a failure every fetch still goes to the browser first:
\* none is made by the plain branch.
C22_RenderedModeKept ==
    /\ [][driver_errors' # driver_errors =>
             (use_selenium' = use_selenium /\ driver' = driver)]_vars
    /\ [](driver_errors # << >> =>
             (use_selenium /\ \A o \in outcomes : o.via # "plain"))

\* C22's case: in crawl the browser failed on one URL, the plain fetch
\* answered, and a URL processed later was fetched through the browser.
C22_Witness ==
    /\ method = "crawl"
    /\ use_selenium
    /\ \E i, j \in 1..Len(proc_log) :
          /\ i < j
          /\ Count(driver_errors, proc_log[i][1]) > 0
          /\ \E o \in outcomes :
                o.url = proc_log[i][1] /\ o.via = "fallback" /\ o.success
          /\ \E o \in outcomes :
                o.url = proc_log[j][1] /\ o.via = "driver" /\ o.resp = "ok"


----------------------------------------------------------------------------
(* Properties of the order of traversal *)

\* The depths of a sequence of tasks never decrease.
DepthSorted(tasks) ==
    \A i, j \in 1..Len(tasks) : i < j => tasks[i][2] <= tasks[j][2]

\* C23: in crawl the depths of the queued tasks are non-decreasing from
\* head to tail and differ by at most 1, the task being processed is no
\* deeper than any queued one, and tasks are processed in non-decreasing
\* order of depth.
C23_BreadthFirst ==
    method = "crawl" =>
        /\ DepthSorted(to_visit)
        /\ to_visit # << >> =>
              to_visit[Len(to_visit)][2] - to_visit[1][2] <= 1
        /\ (pc = "task" /\ to_visit # << >>) =>
              /\ ctx[0].depth <= to_visit[1][2]
              /\ to_visit[Len(to_visit)][2] <= ctx[0].depth + 1
        /\ DepthSorted(proc_log)

\* C23's case: crawl is processing a task while the queue holds tasks of
\* its depth and of the next one.
C23_Witness ==
    /\ method = "crawl"
    /\ pc = "task"
    /\ Len(to_visit) >= 2
    /\ to_visit[1][2] = ctx[0].depth
    /\ to_visit[Len(to_visit)][2] = ctx[0].depth + 1


RECURSIVE Within(_)
\* The URLs at most k link hops from the seed, over the links that pass
\* the filters of extract_links.
Within(k) ==
    IF k = 0 THEN {start_url}
    ELSE Within(k - 1) \cup UNION {OwnLinks(u) : u \in Within(k - 1)}

\* The number of link hops from the seed to u, for u within MaxDepth + 1
\* hops.
Distance(u) == CHOOSE k \in 0..(MaxDepth + 1) :
                  /\ u \in Within(k)
                  /\ \A j \in 0..(k - 1) : u \notin Within(j)

\* The first call of crawl on the instance returned and every fetch it
\* made succeeded.
CleanRun ==
    /\ run = 1
    /\ pc = "returned"
    /\ \A o \in outcomes : o.success /\ ~o.raised /\ o.content = Rendered(o.url)

\* C24: when the first crawl on a crawler has returned and every fetch
\* succeeded, the visited set is the set of URLs at most max_depth hops
\* from the seed, and each was processed at a depth equal to its number
\* of hops.
C24_ShortestDistance ==
    (method = "crawl" /\ CleanRun) =>
        /\ visited_urls = Within(max_depth)
        /\ \A i \in 1..Len(proc_log) :
              proc_log[i][2] = Distance(proc_log[i][1])

\* C24's case: crawl returned from a graph with a cycle back to the seed
\* after links were followed two hops deep.
C24_Witness ==
    /\ method = "crawl"
    /\ CleanRun
    /\ site = SiteDiamond
    /\ max_depth = 2
    /\ fetches # << >>
    /\ \E i \in 1..Len(proc_log) : proc_log[i] = <<R, 2>>


----------------------------------------------------------------------------
(* Properties of termination *)

\* C25: provided each fetch returns, crawl and parallel_crawl eventually
\* return with an empty queue, whatever the cycles of the link graph: a
\* run either returns or has a fetch that did not return but raised.
C25_Terminates ==
    \/ <>(pc = "returned" /\ to_visit = << >>)
    \/ <>(\E o \in outcomes : o.raised)


----------------------------------------------------------------------------
(* Properties of configuration failures *)

\* C26: when the seed URL is missing or the selector map is malformed (not
\* JSON on the command line, or holding an invalid selector), no URL is
\* ever fetched and no task is ever processed.
C26_ConfigFailureFirst ==
    (url_arg = << >> \/ selectors \in {"invalid", "malformed"}) =>
        (fetches = << >> /\ proc_log = << >> /\ visited_urls = {})


----------------------------------------------------------------------------
(* Properties of the steps of a task *)

\* extract_data was called for u and its fetch has ended.
Extracted(u) == \E o \in outcomes : o.url = u /\ o.phase = "data"

\* In every state: a thread is inside extract_data only if selectors were
\* given, and inside extract_links only below max_depth; and when the run
\* has returned, every task it processed had extract_data called if
\* selectors were given and extract_links called if it was below
\* max_depth.
C27_StepsState ==
    /\ \A w \in Threads :
          /\ ctx[w].pc \in {"extract_data", "data_src"} => selectors # "none"
          /\ ctx[w].pc \in {"extract_links", "links_src", "links_check",
                            "links_add"} => ctx[w].depth < max_depth
    /\ \A o \in outcomes : o.phase = "data" => selectors # "none"
    /\ \A t \in disc_log : t[2] < max_depth
    /\ pc = "returned" =>
          \A i \in 1..Len(proc_log) :
             /\ selectors # "none" => Extracted(proc_log[i][1])
             /\ proc_log[i][2] < max_depth => proc_log[i] \in disc_log

\* In every step: extract_links is called for a task only after the
\* extract_data of that task, when selectors were given.
C27_StepsOrder ==
    \A t \in disc_log' \ disc_log :
        selectors # "none" => Extracted(t[1])

\* C27: for every task processed by crawl or parallel_crawl, extract_data
\* is called iff selectors were given, extract_links iff the depth of the
\* task is below max_depth, and extract_data first.
C27_TaskSteps == []C27_StepsState /\ [][C27_StepsOrder]_vars

\* C27's case: a run with selectors returned after a task below max_depth
\* went through extract_data and extract_links and a task at max_depth
\* through extract_data only.
C27_Witness ==
    /\ pc = "returned"
    /\ selectors = "valid"
    /\ max_depth = 1
    /\ \E i, j \in 1..Len(proc_log) :
          /\ proc_log[i][2] = 0
          /\ proc_log[i] \in disc_log
          /\ Extracted(proc_log[i][1])
          /\ proc_log[j][2] = 1
          /\ proc_log[j] \notin disc_log
          /\ Extracted(proc_log[j][1])


\* C28: in plain mode every call of _get_page_content makes one HTTP
\* request for its URL and no more, never raises, succeeds iff the status
\* is 200, and returns content iff it succeeds.
C28_PlainFetch ==
    ~use_selenium =>
        /\ \A u \in DOMAIN fetches \cup {k[1] : k \in DOMAIN http_log} :
              /\ Count(http_log, <<u, "plain">>) = Count(fetches, u)
              /\ Count(http_log, <<u, "fallback">>) = 0
        /\ \A o \in outcomes :
              /\ o.via = "plain"
              /\ ~o.raised
              /\ o.success <=> o.resp = "200"
              /\ o.content # NoPage <=> o.success

\* C28's case: a run in plain mode returned after one fetch got status
\* 200, one another status and one a transport error.
C28_Witness ==
    /\ ~use_selenium
    /\ pc = "returned"
    /\ \E o \in outcomes : o.resp = "200" /\ o.content = Resource(o.url)
    /\ \E o \in outcomes : o.resp = "non200"
    /\ \E o \in outcomes : o.resp = "RequestException"


----------------------------------------------------------------------------
(* Properties of the record handed to the sink *)

\* C29: for every kind of database manager, the record extract_data
\* returns after save_data has the fields and the values it had when it
\* was extracted.
C29_RecordUnchanged ==
    (extract_arg # NoExtract /\ Len(ret) = 1) =>
        ret[1] = extract_data(Str(url_arg), extract_arg.matches, "none")


----------------------------------------------------------------------------
(* Properties of parallel_crawl with one worker *)

\* C30: with max_workers = 1 and fetches that always give the same
\* result, parallel_crawl on a fresh crawler processes the same URLs at
\* the same depths in the same order as crawl, and returns the same
\* sequence of records.
C30_OneWorkerIsSequential ==
    (caller = "pair" /\ method = "parallel_crawl" /\ pc = "returned") =>
        /\ proc_log = ret[1].order
        /\ all_data = ret[1].data

\* C30's case: both runs returned from a site with repeated links, links
\* to another host and a fragment link, followed two hops deep, with
\* records.
C30_Witness ==
    /\ caller = "pair"
    /\ method = "parallel_crawl"
    /\ pc = "returned"
    /\ site = SiteMixed
    /\ ~restrict_domain
    /\ max_depth = 2
    /\ Len(proc_log) >= 4
    /\ Len(all_data) >= 4

=============================================================================
